---- MODULE Spec2Model ----
(***************************************************************************)
(* Model of argon/prem.py: the shortener settings panel.                   *)
(*                                                                         *)
(* Handlers short2, short3 and short4 run as asyncio tasks; the code       *)
(* between two awaits is atomic, so every action below is the code from    *)
(* one await to the next.  Texts are sequences of one-character strings,   *)
(* so that lower(), strip(), the regular expression of parse_time_string   *)
(* and urlparse are computed and not assumed.  A call to the chat          *)
(* transport (send, edit, delete, listen) either succeeds or raises.       *)
(*                                                                         *)
(* Spec is the panel with every button, two admins and a user who is no    *)
(* admin; a wait that times out does so in one step.  TimerSpec follows    *)
(* one session by the clock, ModesSpec one admin who switches the modes,   *)
(* and FormatterSpec calls parse_time_string and format_seconds on their   *)
(* own with every argument of a bounded set.                               *)
(***************************************************************************)
EXTENDS Integers, Sequences, FiniteSets, TLC

\* ------------------------------------------------------------------ bounds
\* replies one input session reads before the user stops answering
MaxReplies == 2
\* button callbacks delivered in one run
MaxCalls == 2
\* seconds by which the clock of a wait advances in one step
TickSeconds == 30
\* characters of the strings parse_time_string is called with on its own
MaxLen == 3
\* hours, minutes and seconds of the counts format_seconds is called with
MaxUnits == 2
\* button callbacks delivered in one run of the mode switches
MaxPresses == 3

\* ------------------------------------------------------- program constants
\* ShortenerManager.TIMEOUT, seconds of one wait
TIMEOUT == 60

\* ------------------------------------------------------------------ texts
\* Python None where a text is expected (response.text of a photo, a
\* request_user_input that returns no value)
NoText == <<"<None>">>

\* the default "None" of api and website
NoneStr == <<"N", "o", "n", "e">>

UpperChars == <<"A", "B", "C", "D", "E", "F", "G", "H", "I", "J", "K", "L", "M",
                "N", "O", "P", "Q", "R", "S", "T", "U", "V", "W", "X", "Y", "Z">>
LowerChars == <<"a", "b", "c", "d", "e", "f", "g", "h", "i", "j", "k", "l", "m",
                "n", "o", "p", "q", "r", "s", "t", "u", "v", "w", "x", "y", "z">>
DigitChars == <<"0", "1", "2", "3", "4", "5", "6", "7", "8", "9">>

IsDigit(c) == \E i \in 1..10 : DigitChars[i] = c
DigitVal(c) == (CHOOSE i \in 1..10 : DigitChars[i] = c) - 1
IsSpace(c) == c = " "

\* str.lower(), one character
LowerChar(c) ==
    IF \E i \in 1..26 : UpperChars[i] = c
    THEN LowerChars[CHOOSE i \in 1..26 : UpperChars[i] = c]
    ELSE c

\* str.lower()
Lower(s) == [i \in 1..Len(s) |-> LowerChar(s[i])]

SetMin(S) == CHOOSE x \in S : \A y \in S : x <= y
SetMax(S) == CHOOSE x \in S : \A y \in S : x >= y

\* str.strip()
Strip(s) ==
    LET keep == {i \in 1..Len(s) : ~IsSpace(s[i])}
    IN  IF keep = {} THEN <<>> ELSE SubSeq(s, SetMin(keep), SetMax(keep))

\* the reserved cancel keyword of line 274; "#" stands for the cross-mark
\* emoji, a character lower() and strip() leave alone
CancelKeyword == <<"#", " ", "c", "a", "n", "c", "e", "l">>

\* Python truthiness of an Optional[str]
Truthy(text) == text # NoText /\ text # <<>>

\* IsCancel comparing the raw text with the button's label
IsCancelExact(text) == Truthy(text) /\ text = <<"#", " ", "C", "a", "n", "c", "e", "l">>

\* line 274: response.text and response.text.lower().strip() == keyword
IsCancel(text) == Truthy(text) /\ Strip(Lower(text)) = CancelKeyword

\* int() of a string of digits
RECURSIVE StrToInt(_)
StrToInt(s) ==
    IF s = <<>> THEN 0
    ELSE 10 * StrToInt(SubSeq(s, 1, Len(s) - 1)) + DigitVal(s[Len(s)])

\* str() of a non-negative int
RECURSIVE IntToStr(_)
IntToStr(n) ==
    IF n < 10 THEN <<DigitChars[n + 1]>>
    ELSE IntToStr(n \div 10) \o <<DigitChars[(n % 10) + 1]>>

\* Optional[int] None
NoMatch == -1

\* Conversions with the table's hour and minute entries swapped
ConversionsSwapped(unit) == CASE unit = "h" -> 60 [] unit = "m" -> 3600 [] unit = "s" -> 1

\* the seconds of one unit of parse_time_string's conversions table
Conversions(unit) == CASE unit = "h" -> 3600 [] unit = "m" -> 60 [] unit = "s" -> 1

\* TimePattern with (\d*) for (\d+): the unit letter alone matches
TimePatternEmptyDigits(t) ==
    /\ Len(t) >= 1
    /\ \A i \in 1..(Len(t) - 1) : IsDigit(t[i])
    /\ t[Len(t)] \in {"h", "m", "s"}

\* re.match(r"^(\d+)([hms])$", ...) of parse_time_string
TimePattern(t) ==
    /\ Len(t) >= 2
    /\ \A i \in 1..(Len(t) - 1) : IsDigit(t[i])
    /\ t[Len(t)] \in {"h", "m", "s"}

\* TimeFormatter.parse_time_string; the argument is a str
parse_time_string(time_str) ==
    LET t == Strip(Lower(time_str))
    IN  IF ~TimePattern(t) THEN NoMatch
        ELSE StrToInt(SubSeq(t, 1, Len(t) - 1)) * Conversions(t[Len(t)])

\* " ".join(parts)
RECURSIVE Join(_)
Join(parts) ==
    IF parts = <<>> THEN <<>>
    ELSE IF Len(parts) = 1 THEN parts[1]
    ELSE parts[1] \o <<" ">> \o Join(Tail(parts))

\* f"{count} {unit}{'s' if count > 1 else ''}"
Part(count, unit) ==
    IntToStr(count) \o <<" ">> \o unit \o (IF count > 1 THEN <<"s">> ELSE <<>>)

HourWord == <<"h", "o", "u", "r">>
MinuteWord == <<"m", "i", "n", "u", "t", "e">>
SecondWord == <<"s", "e", "c", "o", "n", "d">>

\* format_seconds that appends the seconds part whenever seconds is not 0
format_secondsKeepsSeconds(total_seconds) ==
    IF total_seconds = 0 THEN <<"0", " ">> \o SecondWord \o <<"s">>
    ELSE LET hours == total_seconds \div 3600
             minutes == (total_seconds % 3600) \div 60
             seconds == total_seconds % 60
         IN  Join((IF hours # 0 THEN <<Part(hours, HourWord)>> ELSE <<>>)
                  \o (IF minutes # 0 THEN <<Part(minutes, MinuteWord)>> ELSE <<>>)
                  \o (IF seconds # 0 THEN <<Part(seconds, SecondWord)>> ELSE <<>>))

\* TimeFormatter.format_seconds; the argument is a non-negative int
format_seconds(total_seconds) ==
    IF total_seconds = 0 THEN <<"0", " ">> \o SecondWord \o <<"s">>
    ELSE LET hours == total_seconds \div 3600
             minutes == (total_seconds % 3600) \div 60
             seconds == total_seconds % 60
         IN  Join((IF hours # 0 THEN <<Part(hours, HourWord)>> ELSE <<>>)
                  \o (IF minutes # 0 THEN <<Part(minutes, MinuteWord)>> ELSE <<>>)
                  \o (IF seconds # 0 /\ hours = 0
                      THEN <<Part(seconds, SecondWord)>> ELSE <<>>))

\* urlparse: the scheme, netloc and path of a str
IsSchemeChar(c) ==
    \/ IsDigit(c)
    \/ \E i \in 1..26 : UpperChars[i] = c \/ LowerChars[i] = c
    \/ c \in {"+", "-", "."}

FirstIndex(s, chars) ==
    LET hits == {i \in 1..Len(s) : s[i] \in chars}
    IN  IF hits = {} THEN Len(s) + 1 ELSE SetMin(hits)

UrlParse(url) ==
    LET colon == FirstIndex(url, {":"})
        hasScheme ==
            /\ colon > 1
            /\ colon <= Len(url)
            /\ ~IsDigit(url[1])
            /\ \A i \in 1..(colon - 1) : IsSchemeChar(url[i])
        scheme == IF hasScheme THEN Lower(SubSeq(url, 1, colon - 1)) ELSE <<>>
        rest == IF hasScheme THEN SubSeq(url, colon + 1, Len(url)) ELSE url
        hasNetloc == Len(rest) >= 2 /\ rest[1] = "/" /\ rest[2] = "/"
        afterSlashes == IF hasNetloc THEN SubSeq(rest, 3, Len(rest)) ELSE rest
        netEnd == FirstIndex(afterSlashes, {"/", "?", "#"})
        netloc == IF hasNetloc THEN SubSeq(afterSlashes, 1, netEnd - 1) ELSE <<>>
        tail == IF hasNetloc THEN SubSeq(afterSlashes, netEnd, Len(afterSlashes))
                ELSE rest
        path == SubSeq(tail, 1, FirstIndex(tail, {"?", "#"}) - 1)
    IN  [scheme |-> scheme, netloc |-> netloc, path |-> path]

\* URLValidator.is_valid_website_url; urlparse(None) gives empty bytes
\* fields, which equal no str
is_valid_website_url(url) ==
    IF url = NoText THEN FALSE
    ELSE LET parsed == UrlParse(url)
         IN  /\ parsed.scheme = <<"h", "t", "t", "p", "s">>
             /\ parsed.netloc # <<>>
             /\ \A i \in 1..Len(parsed.path) : parsed.path[i] = "/"

\* ------------------------------------------------------------- validators
\* the outcome of validator(response.text): "ok", "reject", or "raise" when
\* the validator raises (validate_time calls None.lower() on a reply
\* without text)
validate_website(text) ==
    IF is_valid_website_url(text) THEN "ok" ELSE "reject"

validate_time(text) ==
    IF text = NoText THEN "raise"
    ELSE IF parse_time_string(text) # NoMatch THEN "ok" ELSE "reject"

\* --------------------------------------------------------------- the world
\* telegram accounts that press buttons; is_admin is the external predicate
\* check_admin, true of the accounts in Admins
Users == {"admin", "admin2", "guest"}
Admins == {"admin", "admin2"}
is_admin(user_id) == user_id \in Admins

\* callback data: short_web, short_api (short2), short_rem (short3),
\* mode_link, mode_24 (short4)
Actions == {"web", "api", "rem", "link", "24"}

\* handler invocations that can be in progress at once
Slots == {1, 2}

\* what a user may send while a session waits: the Cancel button, the
\* keyword in other case and spacing, a time, a site, a photo (no text)
TxtCancelButton == <<"#", " ", "C", "a", "n", "c", "e", "l">>
TxtCancelLoud == <<" ", "#", " ", "C", "A", "N", "C", "E", "L", " ">>
TxtTime == <<"1", "H", " ">>
TxtSite == <<"h", "t", "t", "p", "s", ":", "/", "/", "a", ".", "c", "o">>
ReplyTexts == {TxtCancelButton, TxtCancelLoud, TxtTime, TxtSite, NoText}

\* a key the store does not hold; get_variable then gives its default
Unset == "unset"
Absent == <<"<absent>">>

VARIABLES
    store,      \* kingdb: key -> value
    tasks,      \* slot -> the handler invocation running in it
    listening,  \* slots whose client.listen is registered and unanswered
    calls,      \* callbacks delivered so far
    formatter   \* a call of TimeFormatter made on its own: argument and result

vars == <<store, tasks, listening, calls, formatter>>

\* ShortenerConfig(): the defaults of the dataclass
ShortenerConfig ==
    [api |-> NoneStr, bypass_count |-> <<"0">>, website |-> NoneStr,
     short_enabled |-> Unset, mode |-> "I", token_time |-> 0]

\* a slot no handler runs in
IdleTask ==
    [pc |-> "idle", user |-> "guest", action |-> "rem",
     cfgShort |-> Unset,    \* config.short_enabled of the handler's load_config
     pm |-> "none",         \* prompt_message: "none", "own" (sent by the session), "card"
     own |-> FALSE,         \* the message the session sent exists
     card |-> TRUE,         \* query.message exists
     respFrom |-> "nobody", \* the user who sent the last reply the call read
     resp |-> NoText,       \* response.text of the last reply read
     ret |-> NoText,        \* what request_user_input returns
     outcome |-> "none",    \* how the wait loop ended
     caught |-> FALSE,      \* the except Exception of line 307 ran
     notice |-> "none",     \* the notice that reached the user
     cleanup |-> "none",    \* the finally clause: "deleted", "failed", "skipped"
     waited |-> 0,          \* seconds the current client.listen has waited
     lastWait |-> 0,        \* seconds the wait before it took to get its reply
     nWaits |-> 0,          \* client.listen calls
     nRead |-> 0,           \* replies client.listen gave
     nVal |-> 0,            \* calls of the validator
     nRej |-> 0,            \* replies the validator rejected
     nErrs |-> 0,           \* error messages that reached the user
     errText |-> "none",    \* whose error text the last of them carried
     writes |-> 0,          \* set_variable calls of the handler
     redelete |-> "none",   \* message.delete() of refresh_settings: "ok", "raised"
     config |-> ShortenerConfig]  \* what send_settings loaded for its card

\* no call of TimeFormatter on its own
NoCall ==
    [stage |-> "none",      \* which function was called and how far it is
     time_str |-> <<>>,     \* argument of parse_time_string and validate_time
     total_seconds |-> 0,   \* argument of format_seconds
     result |-> 0,          \* what parse_time_string returned
     verdict |-> "none",    \* what validate_time made of it
     text |-> <<>>]         \* what format_seconds returned

\* the panel before any callback: the store holds none of the keys
InitPanel ==
    /\ store = [api |-> Absent, bypass |-> Absent, website |-> Absent,
                short |-> Unset, mode |-> Unset, token_time |-> Absent]
    /\ tasks = [t \in Slots |-> IdleTask]
    /\ listening = {}
    /\ calls = 0

Init ==
    /\ InitPanel
    /\ formatter = NoCall

\* get_variable(key, default) of the keys this module reads
GetText(key, default) == IF store[key] = Absent THEN default ELSE store[key]
GetShort == store.short

\* load_config: the fields of ShortenerConfig
load_config ==
    [api |-> GetText("api", NoneStr),
     bypass_count |-> GetText("bypass", <<"0">>),
     website |-> GetText("website", NoneStr),
     short_enabled |-> GetShort,
     mode |-> IF store.mode = Unset THEN "I" ELSE store.mode,
     token_time |-> IF store.token_time = Absent THEN 0 ELSE StrToInt(store.token_time)]

\* truthiness of config.short_enabled (None, False, True)
Enabled(short) == short = "True"

Free(t) == tasks[t].pc \in {"idle", "done", "denied", "crashed"}
Running(t) == ~Free(t)

Step(t, rec) == tasks' = [tasks EXCEPT ![t] = rec]

\* what the handler keeps of a finished input session: the returned value
Handler(me) ==
    [IdleTask EXCEPT !.user = me.user, !.action = me.action, !.cfgShort = me.cfgShort,
                     !.card = me.card, !.ret = me.ret, !.writes = me.writes]

\* a handler that has ended
Ended(how) == [IdleTask EXCEPT !.pc = how]

\* ValidatorOf with the API key checked like a website
ValidatorOfApiChecked(action) ==
    CASE action = "web" -> "website"
      [] action = "api" -> "website"
      [] action = "24" -> "time"
      [] OTHER -> "none"

\* the validator request_user_input is called with in each flow
ValidatorOf(action) ==
    CASE action = "web" -> "website"
      [] action = "24" -> "time"
      [] OTHER -> "none"

Validate(validator, text) ==
    CASE validator = "website" -> validate_website(text)
      [] validator = "time" -> validate_time(text)
      [] OTHER -> "ok"

\* Validate and IsCancel of every text a user may send, evaluated once
Verdicts == [v \in {"none", "website", "time"}, r \in ReplyTexts |-> Validate(v, r)]
Cancels == [r \in ReplyTexts |-> IsCancel(r)]

\* a button callback reaches its handler, in the lowest free slot; limit
\* is the number of callbacks the run goes up to
Deliver(t, u, a, limit) ==
    /\ calls < limit
    /\ Free(t)
    /\ \A s \in Slots : Free(s) => t <= s
    /\ calls' = calls + 1
    /\ Step(t, [IdleTask EXCEPT !.pc = "check_admin", !.user = u, !.action = a])
    /\ UNCHANGED <<store, listening, formatter>>

\* CheckAdmin without the return of lines 336, 401 and 429: whoever pressed
\* the button, the handler goes on
CheckAdminNoReturn(t) ==
    /\ tasks[t].pc = "check_admin"
    /\ Step(t, [tasks[t] EXCEPT !.pc =
                IF tasks[t].action \in {"web", "api"} THEN "send_prompt"
                ELSE "load_config"])
    /\ UNCHANGED <<store, listening, calls, formatter>>

\* lines 330-336, 395-401, 423-429: the admin check and the dispatch on
\* query.data; a user who is no admin gets the alert of query.answer and
\* the handler returns
CheckAdmin(t) ==
    /\ tasks[t].pc = "check_admin"
    /\ IF ~is_admin(tasks[t].user)
       THEN Step(t, Ended("denied"))
       ELSE Step(t, [tasks[t] EXCEPT !.pc =
                IF tasks[t].action \in {"web", "api"} THEN "send_prompt"
                ELSE "load_config"])
    /\ UNCHANGED <<store, listening, calls, formatter>>

\* lines 403, 432: config = await load_config(), then the branch taken
LoadConfig(t) ==
    /\ tasks[t].pc = "load_config"
    /\ LET config == load_config
           a == tasks[t].action
           next == CASE a = "rem" ->
                          IF Enabled(config.short_enabled) THEN "rem_set_short"
                          ELSE "answer"
                     [] a = "link" ->
                          IF Enabled(config.short_enabled) THEN "link_set_mode"
                          ELSE "link_set_short"
                     [] OTHER -> "edit"
       IN  Step(t, [tasks[t] EXCEPT !.pc = next, !.cfgShort = config.short_enabled])
    /\ UNCHANGED <<store, listening, calls, formatter>>

\* lines 242-252: request_user_input sends the prompt; the send is outside
\* the try, so when it raises the handler dies with it
SendPrompt(t) ==
    /\ tasks[t].pc = "send_prompt"
    /\ \/ /\ Step(t, [tasks[t] EXCEPT !.pc = "listen", !.pm = "own", !.own = TRUE,
                                      !.nWaits = 1])
          /\ listening' = listening \cup {t}
       \/ /\ Step(t, Ended("crashed"))
          /\ UNCHANGED listening
    /\ UNCHANGED <<store, calls, formatter>>

\* lines 458-486: short4 edits the card into the prompt and calls
\* request_user_input with prompt=None; a failed edit leaves edited_msg None
EditCard(t) ==
    /\ tasks[t].pc = "edit"
    /\ \/ Step(t, [tasks[t] EXCEPT !.pc = "listen", !.pm = "card", !.nWaits = 1])
       \/ Step(t, [tasks[t] EXCEPT !.pc = "listen", !.pm = "none", !.nWaits = 1])
    /\ listening' = listening \cup {t}
    /\ UNCHANGED <<store, calls, formatter>>

\* Return with the delete on the path of a valid reply only
ReturnCleanupOnValueOnly(me, how, value, wasCaught, deleted) ==
    [me EXCEPT !.pc = "returned", !.outcome = how, !.ret = value,
               !.caught = wasCaught, !.lastWait = 0,
               !.waited = IF how = "timeout" THEN me.waited ELSE 0,
               !.cleanup = IF me.pm = "none" \/ how # "value" THEN "skipped"
                           ELSE IF deleted THEN "deleted" ELSE "failed",
               !.own = IF me.pm = "own" /\ deleted /\ how = "value" THEN FALSE ELSE @,
               !.card = IF me.pm = "card" /\ deleted /\ how = "value" THEN FALSE ELSE @]

\* lines 307-315 and the returns of the loop: request_user_input leaves the
\* wait loop, its finally clause deletes the prompt message if there is one
\* (deleted says whether that delete went through; a delete that raises is
\* logged and the message stays) and the call returns value
Return(me, how, value, wasCaught, deleted) ==
    [me EXCEPT !.pc = "returned", !.outcome = how, !.ret = value,
               !.caught = wasCaught, !.lastWait = 0,
               !.waited = IF how = "timeout" THEN me.waited ELSE 0,
               !.cleanup = IF me.pm = "none" THEN "skipped"
                           ELSE IF deleted THEN "deleted" ELSE "failed",
               !.own = IF me.pm = "own" /\ deleted THEN FALSE ELSE @,
               !.card = IF me.pm = "card" /\ deleted THEN FALSE ELSE @]

\* lines 276-281: the cancel notice (sent says whether it went through; a
\* send that raises is caught at line 307), then return None
NotifyCancel(me, sent, deleted) ==
    Return([me EXCEPT !.notice = IF sent THEN "cancel" ELSE @],
           "cancel", NoText, ~sent, deleted)

\* NotifyTimeout without its return: the loop waits again
NotifyTimeoutKeepsWaiting(me, sent, deleted) ==
    [me EXCEPT !.pc = "listen", !.outcome = "timeout", !.nWaits = @ + 1,
               !.notice = IF sent THEN "timeout" ELSE @, !.caught = ~sent]

\* NotifyTimeout returning the last reply read
NotifyTimeoutReturnsLast(me, sent, deleted) ==
    Return([me EXCEPT !.notice = IF sent THEN "timeout" ELSE @],
           "timeout", me.resp, ~sent, deleted)

\* lines 266-271: the timeout notice, then return None
NotifyTimeout(me, sent, deleted) ==
    Return([me EXCEPT !.notice = IF sent THEN "timeout" ELSE @],
           "timeout", NoText, ~sent, deleted)

\* SendError with one deadline for the whole call: the next wait goes on
\* with the time the waits before it have used
SendErrorKeepsClock(me, sent, deleted) ==
    IF sent
    THEN [me EXCEPT !.pc = "listen", !.nErrs = @ + 1, !.nWaits = @ + 1,
                    !.errText = ValidatorOf(me.action), !.lastWait = me.waited]
    ELSE Return(me, "error", NoText, TRUE, deleted)

\* lines 298-306 and 255-261: the validator's error text is sent and the
\* loop waits again, client.listen starting a new wait of TIMEOUT seconds; a
\* send that raises ends the call at line 307
SendError(me, sent, deleted) ==
    IF sent
    THEN [me EXCEPT !.pc = "listen", !.nErrs = @ + 1, !.nWaits = @ + 1,
                    !.errText = ValidatorOf(me.action),
                    !.lastWait = me.waited, !.waited = 0]
    ELSE Return(me, "error", NoText, TRUE, deleted)

\* OnReply returning whatever the validator did not raise on
OnReplyAcceptsAll(me, sent, deleted) ==
    LET validator == ValidatorOf(me.action)
        verdict == Verdicts[validator, me.resp]
    IN  IF Cancels[me.resp] THEN NotifyCancel(me, sent, deleted)
        ELSE IF validator = "none"
        THEN Return(me, "value", me.resp, FALSE, deleted)
        ELSE IF verdict = "raise"
        THEN Return([me EXCEPT !.nVal = @ + 1], "error", NoText, TRUE, deleted)
        ELSE Return([me EXCEPT !.nVal = @ + 1], "value", me.resp, FALSE, deleted)

\* OnReply with the validator called outside the try
OnReplyValidatorUnguarded(me, sent, deleted) ==
    LET validator == ValidatorOf(me.action)
        verdict == Verdicts[validator, me.resp]
    IN  IF Cancels[me.resp] THEN NotifyCancel(me, sent, deleted)
        ELSE IF validator = "none"
        THEN Return(me, "value", me.resp, FALSE, deleted)
        ELSE IF verdict = "ok"
        THEN Return([me EXCEPT !.nVal = @ + 1], "value", me.resp, FALSE, deleted)
        ELSE IF verdict = "raise"
        THEN Ended("crashed")
        ELSE SendError([me EXCEPT !.nVal = @ + 1, !.nRej = @ + 1], sent, deleted)

\* lines 273-297: what the loop does with the reply it has read
OnReply(me, sent, deleted) ==
    LET validator == ValidatorOf(me.action)
        verdict == Verdicts[validator, me.resp]
    IN  IF Cancels[me.resp] THEN NotifyCancel(me, sent, deleted)
        ELSE IF validator = "none"
        THEN Return(me, "value", me.resp, FALSE, deleted)
        ELSE IF verdict = "ok"
        THEN Return([me EXCEPT !.nVal = @ + 1], "value", me.resp, FALSE, deleted)
        ELSE IF verdict = "raise"
        THEN Return([me EXCEPT !.nVal = @ + 1], "error", NoText, TRUE, deleted)
        ELSE SendError([me EXCEPT !.nVal = @ + 1, !.nRej = @ + 1], sent, deleted)

\* Listeners that keeps a listener whose wait is over
ListenersNeverRemoved(t, rec) == listening \cup {t}

\* the listeners left once the handler in slot t has become rec
Listeners(t, rec) ==
    IF rec.pc = "listen" THEN listening \cup {t} ELSE listening \ {t}

\* ListenMatches of a listener that takes the messages of every chat
ListenMatchesAnyChat(t, u) == TRUE

\* line 260: the listener of the call in slot t is registered with
\* chat_id = user_id, so the messages it takes are those user u sends when u
\* is the user of the callback (lines 351, 374, 482)
ListenMatches(t, u) == tasks[t].user = u

\* lines 258-306: user u sends the message r, client.listen gives it to the
\* call in slot t and the loop runs on to its next wait or to the return of
\* the call
Reply(t, u, r) ==
    /\ tasks[t].pc = "listen"
    /\ ListenMatches(t, u)
    /\ tasks[t].nWaits <= MaxReplies
    /\ tasks[t].waited < TIMEOUT
    /\ \E sent \in BOOLEAN, deleted \in BOOLEAN :
          LET rec == OnReply([tasks[t] EXCEPT !.resp = r, !.respFrom = u,
                                              !.nRead = @ + 1],
                             sent, deleted)
          IN  /\ Step(t, rec)
              /\ listening' = Listeners(t, rec)
    /\ UNCHANGED <<store, calls, formatter>>

\* line 259: the wait of client.listen(timeout=TIMEOUT) goes on for some
\* seconds more without a reply and is not over yet
Tick(t, seconds) ==
    /\ tasks[t].pc = "listen"
    /\ tasks[t].waited + seconds < TIMEOUT
    /\ Step(t, [tasks[t] EXCEPT !.waited = @ + seconds])
    /\ UNCHANGED <<store, listening, calls, formatter>>

\* lines 264-271: the wait goes on for some seconds more without a reply
\* and has then lasted TIMEOUT seconds: listen raises ListenerTimeout
Timeout(t, seconds) ==
    /\ tasks[t].pc = "listen"
    /\ tasks[t].waited + seconds >= TIMEOUT
    /\ \E sent \in BOOLEAN, deleted \in BOOLEAN :
          LET rec == NotifyTimeout([tasks[t] EXCEPT !.waited = TIMEOUT], sent, deleted)
          IN  /\ Step(t, rec)
              /\ listening' = Listeners(t, rec)
    /\ UNCHANGED <<store, calls, formatter>>

\* lines 258, 307-309: listen raises another exception
ListenError(t) ==
    /\ tasks[t].pc = "listen"
    /\ \E deleted \in BOOLEAN :
          LET rec == Return(tasks[t], "error", NoText, TRUE, deleted)
          IN  /\ Step(t, rec)
              /\ listening' = Listeners(t, rec)
    /\ UNCHANGED <<store, calls, formatter>>

\* AfterInput with the website written whatever was returned
AfterInputUnchecked(action, value) ==
    CASE action = "web" -> "set_website"
      [] action = "api" -> IF Truthy(value) THEN "set_api" ELSE "done"
      [] OTHER -> IF Truthy(value) THEN "set_token_time" ELSE "refresh"

\* where the handler goes on after request_user_input has returned value
AfterInput(action, value) ==
    IF Truthy(value)
    THEN CASE action = "web" -> "set_website"
           [] action = "api" -> "set_api"
           [] OTHER -> "set_token_time"
    ELSE IF action = "24" THEN "refresh" ELSE "done"

\* lines 357, 378, 488: request_user_input has returned and the handler
\* tests the value
Resume(t) ==
    /\ tasks[t].pc = "returned"
    /\ LET next == AfterInput(tasks[t].action, tasks[t].ret)
       IN  IF next = "done" THEN Step(t, Ended("done"))
           ELSE Step(t, [Handler(tasks[t]) EXCEPT !.pc = next])
    /\ UNCHANGED <<store, listening, calls, formatter>>

\* set_variable(key, value) by the handler in slot t
SetVariable(t, key, value, next) ==
    /\ store' = [store EXCEPT ![key] = value]
    /\ Step(t, [tasks[t] EXCEPT !.pc = next, !.writes = @ + 1])
    /\ UNCHANGED <<listening, calls, formatter>>

\* line 359
SetWebsite(t) ==
    /\ tasks[t].pc = "set_website"
    /\ SetVariable(t, "website", tasks[t].ret, "confirm")

\* line 380
SetApi(t) ==
    /\ tasks[t].pc = "set_api"
    /\ SetVariable(t, "api", tasks[t].ret, "confirm")

\* lines 490-494
SetTokenTime(t) ==
    /\ tasks[t].pc = "set_token_time"
    /\ SetVariable(t, "token_time", IntToStr(parse_time_string(tasks[t].ret)),
                   IF Enabled(tasks[t].cfgShort) THEN "set24_mode" ELSE "set24_short")

\* line 495
Set24Short(t) ==
    /\ tasks[t].pc = "set24_short"
    /\ SetVariable(t, "short", "True", "set24_mode")

\* line 496
Set24Mode(t) ==
    /\ tasks[t].pc = "set24_mode"
    /\ SetVariable(t, "mode", "24", "confirm")

\* line 407
RemSetShort(t) ==
    /\ tasks[t].pc = "rem_set_short"
    /\ SetVariable(t, "short", "False", "rem_set_mode")

\* RemSetMode that clears the verification time with the mode
RemSetModeClearsTime(t) ==
    /\ tasks[t].pc = "rem_set_mode"
    /\ store' = [store EXCEPT !.mode = "None", !.token_time = Absent]
    /\ Step(t, [tasks[t] EXCEPT !.pc = "answer", !.writes = @ + 1])
    /\ UNCHANGED <<listening, calls, formatter>>

\* line 408
RemSetMode(t) ==
    /\ tasks[t].pc = "rem_set_mode"
    /\ SetVariable(t, "mode", "None", "answer")

\* line 438
LinkSetShort(t) ==
    /\ tasks[t].pc = "link_set_short"
    /\ SetVariable(t, "short", "True", "link_set_mode")

\* line 439
LinkSetMode(t) ==
    /\ tasks[t].pc = "link_set_mode"
    /\ SetVariable(t, "mode", "link", "answer")

\* lines 409, 413, 440: query.answer of short3 and of short4's link branch
Answer(t) ==
    /\ tasks[t].pc = "answer"
    /\ IF tasks[t].action = "rem" /\ ~Enabled(tasks[t].cfgShort)
       THEN Step(t, Ended("done"))
       ELSE Step(t, [tasks[t] EXCEPT !.pc = "refresh"])
    /\ UNCHANGED <<store, listening, calls, formatter>>

\* lines 360-364, 381-385, 498-502: the success message
Confirm(t) ==
    /\ tasks[t].pc = "confirm"
    /\ Step(t, [tasks[t] EXCEPT !.pc = "refresh"])
    /\ UNCHANGED <<store, listening, calls, formatter>>

\* LoadForCard that renders the defaults of ShortenerConfig
LoadForCardDefaults == ShortenerConfig

\* line 197: the configuration send_settings renders its card from
LoadForCard == load_config

\* lines 208-216, 197-199: refresh_settings deletes query.message, and logs
\* it when the delete raises, as it does for a message that is gone; then
\* send_settings loads the configuration and renders caption and keyboard
Refresh(t) ==
    /\ tasks[t].pc = "refresh"
    /\ \E deleted \in BOOLEAN :
          /\ deleted => tasks[t].card
          /\ Step(t, [tasks[t] EXCEPT !.pc = "reply_photo",
                                      !.card = IF deleted THEN FALSE ELSE @,
                                      !.redelete = IF deleted THEN "ok" ELSE "raised",
                                      !.config = LoadForCard])
    /\ UNCHANGED <<store, listening, calls, formatter>>

\* lines 201-206: message.reply_photo sends the new card, or raises and the
\* handler dies with it
ReplyPhoto(t) ==
    /\ tasks[t].pc = "reply_photo"
    /\ \/ Step(t, Ended("done"))
       \/ Step(t, Ended("crashed"))
    /\ UNCHANGED <<store, listening, calls, formatter>>

Next ==
    \/ \E t \in Slots, u \in Users, a \in Actions : Deliver(t, u, a, MaxCalls)
    \/ \E t \in Slots : CheckAdmin(t)
    \/ \E t \in Slots : LoadConfig(t)
    \/ \E t \in Slots : SendPrompt(t)
    \/ \E t \in Slots : EditCard(t)
    \/ \E t \in Slots, u \in Users, r \in ReplyTexts : Reply(t, u, r)
    \/ \E t \in Slots : Timeout(t, TIMEOUT)
    \/ \E t \in Slots : ListenError(t)
    \/ \E t \in Slots : Resume(t)
    \/ \E t \in Slots : SetWebsite(t)
    \/ \E t \in Slots : SetApi(t)
    \/ \E t \in Slots : SetTokenTime(t)
    \/ \E t \in Slots : Set24Short(t)
    \/ \E t \in Slots : Set24Mode(t)
    \/ \E t \in Slots : RemSetShort(t)
    \/ \E t \in Slots : RemSetMode(t)
    \/ \E t \in Slots : LinkSetShort(t)
    \/ \E t \in Slots : LinkSetMode(t)
    \/ \E t \in Slots : Answer(t)
    \/ \E t \in Slots : Confirm(t)
    \/ \E t \in Slots : Refresh(t)
    \/ \E t \in Slots : ReplyPhoto(t)

Spec == Init /\ [][Next]_vars

\* ------------------------------------------------- one session by the clock
\* one admin goes through the flows with an input session, one callback at
\* a time, and the clock of each wait advances by TickSeconds
NextTimer ==
    \/ \E a \in {"web", "24"} : Deliver(1, "admin", a, MaxCalls)
    \/ CheckAdmin(1)
    \/ LoadConfig(1)
    \/ SendPrompt(1)
    \/ EditCard(1)
    \/ \E r \in ReplyTexts : Reply(1, "admin", r)
    \/ Tick(1, TickSeconds)
    \/ Timeout(1, TickSeconds)
    \/ ListenError(1)
    \/ Resume(1)
    \/ SetWebsite(1)
    \/ SetTokenTime(1)
    \/ Set24Short(1)
    \/ Set24Mode(1)
    \/ Confirm(1)
    \/ Refresh(1)
    \/ ReplyPhoto(1)

TimerSpec == Init /\ [][NextTimer]_vars

\* ------------------------------------------------------- the mode switches
\* one admin presses REMOVE SHORTENER, PER LINK MODE and 24H MODE, up to
\* MaxPresses times and without waiting for a handler to finish, and
\* answers the 24h prompt with a time or not at all
NextModes ==
    \/ \E t \in Slots, a \in {"rem", "link", "24"} : Deliver(t, "admin", a, MaxPresses)
    \/ \E t \in Slots : CheckAdmin(t)
    \/ \E t \in Slots : LoadConfig(t)
    \/ \E t \in Slots : EditCard(t)
    \/ \E t \in Slots : Reply(t, "admin", TxtTime)
    \/ \E t \in Slots : Timeout(t, TIMEOUT)
    \/ \E t \in Slots : Resume(t)
    \/ \E t \in Slots : SetTokenTime(t)
    \/ \E t \in Slots : Set24Short(t)
    \/ \E t \in Slots : Set24Mode(t)
    \/ \E t \in Slots : RemSetShort(t)
    \/ \E t \in Slots : RemSetMode(t)
    \/ \E t \in Slots : LinkSetShort(t)
    \/ \E t \in Slots : LinkSetMode(t)
    \/ \E t \in Slots : Answer(t)
    \/ \E t \in Slots : Confirm(t)
    \/ \E t \in Slots : Refresh(t)
    \/ \E t \in Slots : ReplyPhoto(t)

ModesSpec == Init /\ [][NextModes]_vars

\* ------------------------------------------- TimeFormatter called on its own
\* the characters of the strings parse_time_string is tried with: digits,
\* the unit letters in both cases, other letters, the space
TimeChars == {"0", "1", "3", "4", "5", "h", "m", "s", "H", "x", "a", "b", "c", " "}

\* every string of up to MaxLen of these characters
TimeStrings == UNION {[1..n -> TimeChars] : n \in 0..MaxLen}

\* the counts format_seconds is tried with: up to MaxUnits hours, minutes
\* and seconds
SecondCounts ==
    {h * 3600 + m * 60 + s : h \in 0..MaxUnits, m \in 0..MaxUnits, s \in 0..MaxUnits}

\* a call of parse_time_string with any of the strings, or of
\* format_seconds with any of the counts; the panel stays idle
InitFormatter ==
    /\ InitPanel
    /\ \/ \E s \in TimeStrings :
              formatter = [NoCall EXCEPT !.stage = "parse_time_string", !.time_str = s]
       \/ \E n \in SecondCounts :
              formatter = [NoCall EXCEPT !.stage = "format_seconds", !.total_seconds = n]

\* lines 69-85
ParseTimeString ==
    /\ formatter.stage = "parse_time_string"
    /\ formatter' = [formatter EXCEPT !.stage = "parsed",
                                      !.result = parse_time_string(formatter.time_str)]
    /\ UNCHANGED <<store, tasks, listening, calls>>

\* lines 446-456: the validator of the 24h flow on the same string
ValidateTime ==
    /\ formatter.stage = "parsed"
    /\ formatter' = [formatter EXCEPT !.stage = "validated",
                                      !.verdict = validate_time(formatter.time_str)]
    /\ UNCHANGED <<store, tasks, listening, calls>>

\* lines 49-67
FormatSeconds ==
    /\ formatter.stage = "format_seconds"
    /\ formatter' = [formatter EXCEPT !.stage = "formatted",
                                      !.text = format_seconds(formatter.total_seconds)]
    /\ UNCHANGED <<store, tasks, listening, calls>>

NextFormatter ==
    \/ ParseTimeString
    \/ ValidateTime
    \/ FormatSeconds

FormatterSpec == InitFormatter /\ [][NextFormatter]_vars

\* ----------------------------------------------------------------- claims
\* the flows that call request_user_input
InputFlows == {"web", "api", "24"}

\* request_user_input is running in slot t, waiting or just returned
InSession(t) == tasks[t].pc \in {"listen", "returned"}

\* the prompt message of the session in slot t exists
PromptAlive(t) ==
    \/ tasks[t].pm = "own" /\ tasks[t].own
    \/ tasks[t].pm = "card" /\ tasks[t].card

\* the texts that equal the cancel keyword once lower-cased and trimmed
KeywordReplies == {r \in ReplyTexts : r # NoText /\ Strip(Lower(r)) = CancelKeyword}

\* C1 as stated: whenever the session has a prompt message, that message is
\* gone when request_user_input has returned, on every exit path.
C1_PromptRemovedOnReturn ==
    \A t \in Slots :
        tasks[t].pc = "returned" /\ tasks[t].pm # "none" => ~PromptAlive(t)

\* C1 amended: whenever the session has a prompt message, the call has run
\* the delete of that message by the time it returns, on every exit path;
\* the message is gone when that delete went through and stays when the
\* delete itself raised.
C1_DeleteRunOnEveryExit ==
    \A t \in Slots :
        tasks[t].pc = "returned" /\ tasks[t].pm # "none" =>
            /\ tasks[t].cleanup \in {"deleted", "failed"}
            /\ tasks[t].cleanup = "deleted" => ~PromptAlive(t)
            /\ tasks[t].cleanup = "failed" => PromptAlive(t)

\* a call that left by the except clause and whose prompt, the edited card,
\* was deleted
C1_Witness ==
    \E t \in Slots :
        /\ tasks[t].pc = "returned"
        /\ tasks[t].pm = "card"
        /\ tasks[t].outcome = "error"
        /\ tasks[t].cleanup = "deleted"
        /\ ~tasks[t].card

\* C2: in the website, API-key and 24h flows a step of the handler writes a
\* settings key only when its input session has returned a value that is
\* truthy and that the flow's validator accepts; a handler whose session
\* ended with no value changes no key.
C2_NoWriteWithoutValidValue ==
    [][\A t \in Slots :
          tasks'[t] # tasks[t] /\ Running(t) /\ tasks[t].action \in InputFlows =>
              \/ store' = store /\ tasks'[t].writes <= tasks[t].writes
              \/ /\ Truthy(tasks[t].ret)
                 /\ Verdicts[ValidatorOf(tasks[t].action), tasks[t].ret] = "ok"]_vars

\* a 24h flow whose session gave no value has gone on to the refresh with
\* nothing written
C2_Witness ==
    \E t \in Slots :
        /\ tasks[t].action = "24"
        /\ tasks[t].pc = "refresh"
        /\ tasks[t].ret = NoText
        /\ tasks[t].writes = 0
        /\ store.token_time = Absent

\* C3: with a validator, a returned value is the last reply read, unchanged,
\* and the validator accepts it; every reply before it was rejected, each
\* rejected reply got one error message with the validator's text and one
\* more wait; a rejected reply is never returned.
C3_FirstAcceptedReplyReturned ==
    \A t \in Slots :
        InSession(t) /\ ValidatorOf(tasks[t].action) # "none" =>
            /\ tasks[t].ret # NoText =>
                  /\ tasks[t].pc = "returned"
                  /\ tasks[t].outcome = "value"
                  /\ tasks[t].ret = tasks[t].resp
                  /\ Verdicts[ValidatorOf(tasks[t].action), tasks[t].ret] = "ok"
            /\ tasks[t].outcome = "value" =>
                  /\ tasks[t].ret # NoText
                  /\ tasks[t].nRej = tasks[t].nVal - 1
                  /\ tasks[t].nRead = tasks[t].nVal
            /\ tasks[t].pc = "listen" \/ tasks[t].outcome = "value" =>
                  /\ tasks[t].nErrs = tasks[t].nRej
                  /\ tasks[t].nWaits = tasks[t].nRej + 1
                  /\ tasks[t].nErrs > 0 => tasks[t].errText = ValidatorOf(tasks[t].action)

\* the website flow returns a site after a rejected reply
C3_Witness ==
    \E t \in Slots :
        /\ tasks[t].action = "web"
        /\ tasks[t].pc = "returned"
        /\ tasks[t].outcome = "value"
        /\ tasks[t].ret = TxtSite
        /\ tasks[t].nRej = 1
        /\ tasks[t].nErrs = 1

\* C4 as stated: a wait that times out ends the call with the timeout
\* notice sent to the user and None returned, and no reply is read after it.
C4_TimeoutNoticeAndNone ==
    \A t \in Slots :
        tasks[t].outcome = "timeout" =>
            /\ tasks[t].pc = "returned"
            /\ tasks[t].ret = NoText
            /\ tasks[t].notice = "timeout"

\* C4 amended: a wait that times out ends the call with None returned; the
\* timeout notice reaches the user unless the send of it raised, which the
\* call catches; the wait that timed out read no reply and no reply is read
\* after it.
C4_TimeoutEndsWithNone ==
    \A t \in Slots :
        tasks[t].outcome = "timeout" =>
            /\ tasks[t].pc = "returned"
            /\ tasks[t].ret = NoText
            /\ tasks[t].notice = "timeout" \/ tasks[t].caught
            /\ tasks[t].notice \in {"timeout", "none"}
            /\ tasks[t].nRead = tasks[t].nWaits - 1

\* a call that timed out on its second wait and notified the user
C4_Witness ==
    \E t \in Slots :
        /\ tasks[t].pc = "returned"
        /\ tasks[t].outcome = "timeout"
        /\ tasks[t].notice = "timeout"
        /\ tasks[t].nWaits = 2
        /\ tasks[t].ret = NoText

\* C5 as stated: a reply that equals the cancel keyword after lower-casing
\* and trimming ends the session with the cancel notice sent and None
\* returned; it is not given to the validator and is never the value.
C5_CancelNoticeAndNone ==
    \A t \in Slots :
        /\ tasks[t].ret \notin KeywordReplies
        /\ InSession(t) /\ tasks[t].nRead >= 1 /\ tasks[t].resp \in KeywordReplies =>
              /\ tasks[t].pc = "returned"
              /\ tasks[t].outcome = "cancel"
              /\ tasks[t].ret = NoText
              /\ tasks[t].notice = "cancel"
              /\ tasks[t].nVal = tasks[t].nRead - 1

\* C5 amended: such a reply ends the session with None returned, on the
\* first wait or after rejected replies; the cancel notice reaches the user
\* unless the send of it raised, which the call catches; the reply is not
\* given to the validator and is never the value.
C5_CancelEndsWithNone ==
    \A t \in Slots :
        /\ tasks[t].ret \notin KeywordReplies
        /\ InSession(t) /\ tasks[t].nRead >= 1 /\ tasks[t].resp \in KeywordReplies =>
              /\ tasks[t].pc = "returned"
              /\ tasks[t].outcome = "cancel"
              /\ tasks[t].ret = NoText
              /\ tasks[t].notice = "cancel" \/ tasks[t].caught
              /\ tasks[t].notice \in {"cancel", "none"}
              /\ tasks[t].nVal = tasks[t].nRead - 1
              /\ tasks[t].nVal = tasks[t].nRej

\* the keyword in capitals and with spaces around it cancels after a
\* rejected reply
C5_Witness ==
    \E t \in Slots :
        /\ tasks[t].pc = "returned"
        /\ tasks[t].resp = TxtCancelLoud
        /\ tasks[t].outcome = "cancel"
        /\ tasks[t].notice = "cancel"
        /\ tasks[t].nRej = 1

\* C6: without a validator (the API-key flow) the call waits once, sends no
\* error message, calls no validator, and returns the first reply that is
\* not a cancel as it came.
C6_NoValidatorReturnsFirstReply ==
    \A t \in Slots :
        InSession(t) /\ tasks[t].action = "api" =>
            /\ tasks[t].nWaits = 1
            /\ tasks[t].nErrs = 0
            /\ tasks[t].nVal = 0
            /\ tasks[t].nRead = 1 /\ tasks[t].resp \notin KeywordReplies =>
                  /\ tasks[t].pc = "returned"
                  /\ tasks[t].outcome = "value"
                  /\ tasks[t].ret = tasks[t].resp

\* the API-key flow returns its first reply, capitals and trailing space
\* included, after one wait
C6_Witness ==
    \E t \in Slots :
        /\ tasks[t].action = "api"
        /\ tasks[t].pc = "returned"
        /\ tasks[t].outcome = "value"
        /\ tasks[t].ret = TxtTime
        /\ tasks[t].nWaits = 1

\* C7: a call that waits either waits on or returns, it never takes the
\* handler down; and a call that caught an error returns None.
C7_ErrorsCaught ==
    [][\A t \in Slots :
          /\ tasks[t].pc = "listen" => tasks'[t].pc \in {"listen", "returned"}
          /\ tasks'[t].pc = "returned" /\ tasks'[t].caught => tasks'[t].ret = NoText]_vars

\* the time validator raised on a reply without text and the call returned
\* None
C7_Witness ==
    \E t \in Slots :
        /\ tasks[t].action = "24"
        /\ tasks[t].pc = "returned"
        /\ tasks[t].caught
        /\ tasks[t].outcome = "error"
        /\ tasks[t].resp = NoText
        /\ tasks[t].nVal = 1
        /\ tasks[t].ret = NoText

\* every reply the session in slot t has read was given to the validator
\* and rejected by it
AlwaysRejected(t) ==
    /\ InSession(t)
    /\ ValidatorOf(tasks[t].action) # "none"
    /\ tasks[t].nRead >= 1
    /\ tasks[t].nRej = tasks[t].nRead

\* C8 as stated: a session whose validator rejects every reply ends by
\* timing out, with no value, and persists nothing.
C8_AlwaysRejectedTimesOut ==
    \A t \in Slots :
        AlwaysRejected(t) /\ tasks[t].pc = "returned" =>
            /\ tasks[t].outcome = "timeout"
            /\ tasks[t].ret = NoText
            /\ tasks[t].writes = 0

\* C8 amended: a session whose validator rejects every reply holds no value
\* while it waits and returns none when it ends, by a timeout of one wait
\* or by an unexpected error; its handler goes on to no set_variable call.
C8_AlwaysRejectedNoValue ==
    \A t \in Slots :
        AlwaysRejected(t) =>
            /\ tasks[t].ret = NoText
            /\ tasks[t].writes = 0
            /\ tasks[t].pc = "returned" =>
                  /\ tasks[t].outcome \in {"timeout", "error"}
                  /\ AfterInput(tasks[t].action, tasks[t].ret) \in {"done", "refresh"}

\* a session that timed out after its validator rejected two replies
C8_Witness ==
    \E t \in Slots :
        /\ AlwaysRejected(t)
        /\ tasks[t].pc = "returned"
        /\ tasks[t].outcome = "timeout"
        /\ tasks[t].nRej = 2

\* the pending input sessions of user u: the registered listeners of the
\* handlers u started
PendingOf(u) == {t \in listening : tasks[t].user = u}

\* the handlers of user u that are in a flow with an input session
InputHandlersOf(u) ==
    {t \in Slots : Running(t) /\ tasks[t].user = u /\ tasks[t].action \in InputFlows}

\* C9 as stated: at most one pending input session per user, whatever
\* callbacks are delivered.
C9_OnePendingPerUser ==
    \A u \in Users : Cardinality(PendingOf(u)) <= 1

\* C9 amended: there is at most one pending input session per handler
\* invocation: the pending sessions are the calls that are waiting, so a
\* user has no more of them than handlers of theirs in an input flow, and
\* at most one while their callbacks are handled one at a time.
C9_OnePendingPerHandler ==
    /\ listening = {t \in Slots : tasks[t].pc = "listen"}
    /\ \A u \in Users :
          /\ Cardinality(PendingOf(u)) <= Cardinality(InputHandlersOf(u))
          /\ Cardinality(InputHandlersOf(u)) <= 1 => Cardinality(PendingOf(u)) <= 1

\* one admin has two sessions pending at once
C9_Witness ==
    \E u \in Users : Cardinality(PendingOf(u)) = 2

\* C10: whenever request_user_input waits for a reply, the session has a
\* prompt message and that message exists.
C10_PromptVisibleWhileWaiting ==
    \A t \in Slots : tasks[t].pc = "listen" => PromptAlive(t)

\* C11: the timeout of request_user_input is TIMEOUT = 60 seconds for each
\* wait on its own: a wait that follows a rejected reply starts with no time
\* used, and a call takes the timeout outcome only in a step at whose end
\* its current wait, alone, has lasted TIMEOUT seconds, with no reply read
\* in that step.
C11_TimeoutPerWait ==
    [][\A t \in Slots :
          tasks[t].pc = "listen" =>
              /\ TIMEOUT = 60
              /\ tasks[t].waited < TIMEOUT
              /\ tasks'[t].pc = "listen" /\ tasks'[t].nWaits = tasks[t].nWaits + 1
                     => tasks'[t].waited = 0
              /\ tasks'[t].pc = "returned" /\ tasks'[t].outcome = "timeout"
                     => /\ tasks[t].waited + TickSeconds >= TIMEOUT
                        /\ tasks'[t].waited = TIMEOUT
                        /\ tasks'[t].nRead = tasks[t].nRead]_vars

\* a second wait is still open although the two waits of the call have
\* together lasted as long as one timeout
C11_Witness ==
    \E t \in Slots :
        /\ tasks[t].pc = "listen"
        /\ tasks[t].nWaits = 2 /\ tasks[t].nRej = 1
        /\ tasks[t].waited > 0 /\ tasks[t].waited < TIMEOUT
        /\ tasks[t].lastWait + tasks[t].waited >= TIMEOUT

\* C12: input sessions of different users are independent: a step of user
\* A's waiting session (a reply, a cancel, a timeout, an error) reads only a
\* message that A sent, and leaves the session of every other user B as it
\* is: B's handler, what B's session has read and returns, and whether B's
\* session is still pending; it does not touch the settings store either,
\* the one thing the handlers share.
C12_SessionsIndependent ==
    [][\A t \in Slots :
          tasks[t].pc = "listen" /\ tasks'[t] # tasks[t] =>
              /\ tasks'[t].nRead > tasks[t].nRead
                     => tasks'[t].respFrom = tasks[t].user
              /\ \A s \in Slots :
                     tasks[s].user # tasks[t].user =>
                         /\ tasks'[s] = tasks[s]
                         /\ (s \in listening') = (s \in listening)
              /\ store' = store]_vars

\* user A's session has ended on a reply of A while the session of another
\* user, opened before, still waits and has read nothing
C12_Witness ==
    \E t \in Slots, s \in Slots :
        /\ tasks[t].user # tasks[s].user
        /\ tasks[t].pc = "returned" /\ tasks[t].nRead >= 1
        /\ tasks[t].outcome \in {"value", "cancel"}
        /\ tasks[s].pc = "listen" /\ s \in listening
        /\ tasks[s].nRead = 0

\* the form <digits><h|m|s>: one or more decimal digits, then one unit letter
IsTimeForm(s) ==
    /\ Len(s) >= 2
    /\ \A i \in 1..(Len(s) - 1) :
           s[i] \in {"0", "1", "2", "3", "4", "5", "6", "7", "8", "9"}
    /\ s[Len(s)] \in {"h", "m", "s"}

\* the integer a string of decimal digits denotes, read from the left
RECURSIVE DecimalValue(_, _)
DecimalValue(digits, sofar) ==
    IF digits = <<>> THEN sofar
    ELSE LET d == CASE Head(digits) = "0" -> 0 [] Head(digits) = "1" -> 1
                    [] Head(digits) = "2" -> 2 [] Head(digits) = "3" -> 3
                    [] Head(digits) = "4" -> 4 [] Head(digits) = "5" -> 5
                    [] Head(digits) = "6" -> 6 [] Head(digits) = "7" -> 7
                    [] Head(digits) = "8" -> 8 [] Head(digits) = "9" -> 9
         IN  DecimalValue(Tail(digits), 10 * sofar + d)

\* the formatter has returned from parse_time_string
Parsed == formatter.stage \in {"parsed", "validated"}

\* C13: for every string of the form <digits><h|m|s>, parse_time_string
\* returns the digits' integer value times 3600 for h, 60 for m and 1 for
\* s; "1h" gives 3600, "30m" gives 1800 and "45s" gives 45.
C13_ParseTimesUnit ==
    Parsed =>
        LET s == formatter.time_str
        IN  /\ IsTimeForm(s) =>
                  formatter.result =
                      DecimalValue(SubSeq(s, 1, Len(s) - 1), 0)
                          * (CASE s[Len(s)] = "h" -> 3600
                               [] s[Len(s)] = "m" -> 60
                               [] s[Len(s)] = "s" -> 1)
            /\ s = <<"1", "h">> => formatter.result = 3600
            /\ s = <<"3", "0", "m">> => formatter.result = 1800
            /\ s = <<"4", "5", "s">> => formatter.result = 45

\* "30m" has been parsed to 1800
C13_Witness ==
    /\ formatter.stage = "parsed"
    /\ formatter.time_str = <<"3", "0", "m">>
    /\ formatter.result = 1800

\* C14 as stated: parse_time_string returns None for every string that is
\* not of the form <digits><h|m|s>, and validate_time rejects it.
C14_NoMatchOutsideForm ==
    Parsed /\ ~IsTimeForm(formatter.time_str) =>
        /\ formatter.result = NoMatch
        /\ formatter.stage = "validated" => formatter.verdict = "reject"

\* C14 amended: parse_time_string returns None for every string that is not
\* of the form <digits><h|m|s> once it is lower-cased and stripped of the
\* spaces around it, "abc", "1x" and the empty string among them, and
\* validate_time rejects every such string; a string of the form in upper
\* case or with spaces around it is parsed.
C14_NoMatchOutsideNormalForm ==
    Parsed =>
        LET s == formatter.time_str
        IN  /\ ~IsTimeForm(Strip(Lower(s))) =>
                  /\ formatter.result = NoMatch
                  /\ formatter.stage = "validated" => formatter.verdict = "reject"
            /\ s \in {<<"a", "b", "c">>, <<"1", "x">>, <<>>} => formatter.result = NoMatch
            /\ s \in {<<"1", "H">>, <<" ", "1", "h">>} => formatter.result = 3600

\* "1x" has been parsed to None and rejected by the validator
C14_Witness ==
    /\ formatter.stage = "validated"
    /\ formatter.time_str = <<"1", "x">>
    /\ formatter.result = NoMatch
    /\ formatter.verdict = "reject"

\* the words of a text, split at its spaces
RECURSIVE SplitWords(_)
SplitWords(text) ==
    IF \A i \in 1..Len(text) : text[i] # " " THEN <<text>>
    ELSE LET i == CHOOSE k \in 1..Len(text) :
                      text[k] = " " /\ \A j \in 1..(k - 1) : text[j] # " "
         IN  <<SubSeq(text, 1, i - 1)>> \o SplitWords(SubSeq(text, i + 1, Len(text)))

\* the two words of one part: the count, and the unit with an "s" exactly
\* when the count exceeds 1
PartWords(count, unit) ==
    <<IntToStr(count), IF count > 1 THEN unit \o <<"s">> ELSE unit>>

\* C15: format_seconds gives "0 seconds" for 0; for a positive count the
\* output is not empty and is made of, in this order, an hours part iff
\* hours > 0, a minutes part iff minutes > 0 and a seconds part iff
\* seconds > 0 and hours = 0, each unit in the plural exactly when its count
\* exceeds 1; 3661 gives "1 hour 1 minute".
C15_FormatSecondsParts ==
    formatter.stage = "formatted" =>
        LET n == formatter.total_seconds
            hours == n \div 3600
            minutes == (n % 3600) \div 60
            seconds == n % 60
        IN  /\ n = 0 => formatter.text = <<"0", " ", "s", "e", "c", "o", "n", "d", "s">>
            /\ n > 0 =>
                  /\ formatter.text # <<>>
                  /\ SplitWords(formatter.text) =
                        (IF hours > 0 THEN PartWords(hours, <<"h", "o", "u", "r">>) ELSE <<>>)
                        \o (IF minutes > 0 THEN PartWords(minutes, <<"m", "i", "n", "u", "t", "e">>) ELSE <<>>)
                        \o (IF seconds > 0 /\ hours = 0
                            THEN PartWords(seconds, <<"s", "e", "c", "o", "n", "d">>) ELSE <<>>)
            /\ n = 3661 => formatter.text = <<"1", " ", "h", "o", "u", "r", " ", "1", " ", "m", "i", "n", "u", "t", "e">>

\* 3661 seconds have been formatted, the second dropped
C15_Witness ==
    /\ formatter.stage = "formatted"
    /\ formatter.total_seconds = 3661
    /\ formatter.text = <<"1", " ", "h", "o", "u", "r", " ", "1", " ", "m", "i", "n", "u", "t", "e">>

\* C18: a handler invoked by a user for whom is_admin is false only answers
\* the callback with the not-authorised alert and returns: it writes nothing
\* to the store, starts no input session and sends, edits or deletes no
\* message.  Hence no handler of such a user ever gets past the admin check,
\* and every write to the store is a set_variable of a handler whose user
\* passed it.
C18_NonAdminOnlyAlerted ==
    [][/\ \A t \in Slots :
             tasks[t].pc = "check_admin" /\ tasks[t].user \notin Admins
                 /\ tasks'[t] # tasks[t] =>
                 /\ tasks'[t] = Ended("denied")
                 /\ store' = store
                 /\ listening' = listening
       /\ \A t \in Slots :
             tasks'[t].pc \notin {"idle", "done", "denied", "crashed", "check_admin"}
                 => tasks'[t].user \in Admins
       /\ store' # store =>
             \E t \in Slots :
                 /\ tasks[t].user \in Admins
                 /\ tasks[t].pc \notin {"idle", "done", "denied", "crashed", "check_admin"}
                 /\ tasks'[t].writes = tasks[t].writes + 1]_vars

\* a user who is no admin has been turned away while an admin's handler is
\* about to write
C18_Witness ==
    \E t \in Slots, s \in Slots :
        /\ tasks[t].pc = "denied"
        /\ tasks[s].pc \in {"set_website", "set_api", "set_token_time",
                            "rem_set_short", "link_set_short"}
        /\ store = [api |-> Absent, bypass |-> Absent, website |-> Absent,
                    short |-> Unset, mode |-> Unset, token_time |-> Absent]

\* C16: when the 24h flow of short4 is about to send its "24h mode enabled"
\* confirmation, and whatever other admin actions have run to their end
\* since the flow loaded the configuration, the store holds short = True,
\* mode = "24" and as token_time the parsed seconds of the accepted reply.
C16_ConfirmedStoreIs24h ==
    \A t \in Slots :
        /\ tasks[t].action = "24" /\ tasks[t].pc = "confirm"
        /\ \A s \in Slots \ {t} : Free(s)
        => /\ store.short = "True"
           /\ store.mode = "24"
           /\ store.token_time # Absent
           /\ StrToInt(store.token_time) = parse_time_string(tasks[t].ret)

\* a handler has made one of its writes to the store and not yet the last
MidWrites(t) ==
    tasks[t].pc \in {"rem_set_mode", "link_set_mode", "set24_short", "set24_mode"}

\* C17: from the default settings on, in every state in which no handler is
\* part-way through its writes, short = True implies that mode is "24" or
\* "link", however the executions of the handlers interleave.
C17_EnabledHasMode ==
    (\A t \in Slots : ~MidWrites(t)) =>
        (Enabled(store.short) => store.mode \in {"24", "link"})

\* C19: every step of short3 run by an admin leaves api, website,
\* token_time and bypass alone; when load_config finds the shortener
\* enabled it sets short to False and then mode to None and goes on to
\* refresh the card; when it finds it not enabled, as a second run right
\* after a first one does, it writes nothing, answers and returns without
\* sending a settings card.
C19_RemoveWritesShortAndMode ==
    [][\A t \in Slots :
          tasks[t].action = "rem" /\ tasks[t].pc # "check_admin"
              /\ tasks'[t] # tasks[t] =>
              /\ \A k \in {"api", "website", "token_time", "bypass"} :
                     store'[k] = store[k]
              /\ tasks[t].pc = "load_config" =>
                     /\ store' = store
                     /\ tasks'[t].pc = IF store.short = "True" THEN "rem_set_short"
                                       ELSE "answer"
              /\ tasks[t].pc = "rem_set_short" =>
                     /\ store' = [store EXCEPT !.short = "False"]
                     /\ tasks'[t].pc = "rem_set_mode"
              /\ tasks[t].pc = "rem_set_mode" =>
                     /\ store' = [store EXCEPT !.mode = "None"]
                     /\ tasks'[t].pc = "answer"
              /\ tasks[t].pc = "answer" =>
                     /\ store' = store
                     /\ IF tasks[t].writes = 0 THEN tasks'[t] = Ended("done")
                        ELSE tasks'[t].pc = "refresh" /\ tasks[t].writes = 2
              /\ tasks[t].pc \in {"refresh", "reply_photo"} => store' = store]_vars

\* short3 runs again after a short3 that disabled the shortener: it has
\* found short = False and written nothing
C19_Witness ==
    \E t \in Slots :
        /\ tasks[t].action = "rem" /\ tasks[t].pc = "answer"
        /\ tasks[t].cfgShort = "False" /\ tasks[t].writes = 0
        /\ store.short = "False" /\ store.mode = "None"
        /\ \A s \in Slots \ {t} : Free(s)

\* the handler in slot t is in short4's 24h flow and its input session has
\* returned no value
NoValue24(t) ==
    /\ tasks[t].action = "24"
    /\ tasks[t].ret = NoText
    /\ tasks[t].writes = 0

\* C20 as stated: when the input session of the 24h flow returns no value,
\* the handler leaves the store unchanged and sends a settings card rendered
\* from a fresh load of the store, after the prompt message was removed.
C20_CardRestoredAfterPromptRemoved ==
    [][\A t \in Slots :
          NoValue24(t) /\ tasks'[t] # tasks[t] =>
              /\ tasks[t].pc = "returned" =>
                     tasks'[t].pc = "refresh" /\ store' = store
              /\ tasks[t].pc = "refresh" =>
                     /\ tasks'[t].pc = "reply_photo" /\ store' = store
                     /\ tasks'[t].config = load_config
                     /\ ~tasks'[t].card
              /\ tasks[t].pc = "reply_photo" =>
                     tasks'[t] = Ended("done") /\ store' = store]_vars

\* C20 amended: when the input session of the 24h flow returns no value,
\* the handler writes nothing to the store and calls refresh_settings: the
\* delete of query.message, the prompt, is run once more and a failure of
\* it is only logged, so the message is gone unless the deletes raised;
\* then send_settings renders a card from a fresh load of the store and
\* sends it, the handler ending there whether or not reply_photo raises.
C20_RefreshAfterNoValue ==
    [][\A t \in Slots :
          NoValue24(t) /\ tasks'[t] # tasks[t] =>
              /\ tasks[t].pc = "returned" =>
                     tasks'[t].pc = "refresh" /\ store' = store
              /\ tasks[t].pc = "refresh" =>
                     /\ tasks'[t].pc = "reply_photo" /\ store' = store
                     /\ tasks'[t].config = load_config
                     /\ tasks'[t].redelete \in {"ok", "raised"}
                     /\ tasks'[t].redelete = "ok" => tasks[t].card /\ ~tasks'[t].card
                     /\ tasks'[t].redelete = "raised" => tasks'[t].card = tasks[t].card
              /\ tasks[t].pc = "reply_photo" =>
                     /\ tasks'[t] \in {Ended("done"), Ended("crashed")}
                     /\ store' = store]_vars

\* after a 24h flow without a value, the card is rendered from a store that
\* another flow has changed; the prompt was removed when the session
\* returned, so the delete of refresh_settings raised
C20_Witness ==
    \E t \in Slots :
        /\ NoValue24(t) /\ tasks[t].pc = "reply_photo"
        /\ ~tasks[t].card /\ tasks[t].redelete = "raised"
        /\ tasks[t].config = load_config
        /\ tasks[t].config # ShortenerConfig

====
